---- MODULE Spec2Model ----
(***************************************************************************)
(* Content lifecycle of the content-automation backend.                     *)
(*                                                                         *)
(* State: the identity store (users), the content store (contents), the    *)
(* analytics store (analytics) and the instant the requests are served at  *)
(* (now: the handlers stamp it and compare it, none of them reads a stamp  *)
(* back); edits counts the edit requests on each artifact that ended       *)
(* without an error; sent is the body of the last response of the account  *)
(* routes (the account as serialized) or of the design-token route (a      *)
(* sequence of at most one).  The design-tool service is one object shared *)
(* by all requests: header is the X-Figma-Token default of its client,     *)
(* pending the design-tool requests that wait for an answer of the design  *)
(* tool, calls the outbound call made last (a sequence of at most one),    *)
(* file the document the design tool serves.                               *)
(*                                                                         *)
(* Each request handler of backend/controllers/contentController.js is an  *)
(* operator that gives, for the request's inputs and the stores as they    *)
(* are, the handler's outcome: the stores after it, how it ended (code)    *)
(* and which parts of the artifact its response carries (returns).  The    *)
(* action of a handler installs the outcome: requests are handled one at   *)
(* a time, from the handler's first line to its response.  A document is   *)
(* changed in the store only by a save() that passes the validation of     *)
(* its schema.                                                             *)
(***************************************************************************)
EXTENDS Integers, Sequences, FiniteSets, TLC

VARIABLES users, contents, analytics, now, edits, sent,
          header, pending, calls, file

vars == <<users, contents, analytics, now, edits, sent, header, pending, calls, file>>

---------------------------------------------------------------------------
(* Bounds of the model *)

\* highest version an artifact is edited up to
MaxVersion == 3
\* longest raw view log of an analytics record
MaxViews == 1
MaxEvents == 3

---------------------------------------------------------------------------
(* Values *)

\* a property that is absent from a JavaScript object
Undefined == "undefined"
\* the empty string
Empty == ""
\* an absent Date field
NoDate == 0
\* new Date(s) of a string that is no date
InvalidDate == -1
\* prompt length limit of the generate route
MaxPromptLen == 1000

UserIds == {"u1", "u2", "u3", "u4"}
\* the accounts that send the requests on one artifact's body and distribution:
\* its author and an account of another company
Senders == {"u1", "u3"}
\* d1 is stored when the server starts; d2 is the next ObjectId
ContentIds == {"d1", "d2"}
Bodies == {"b1", "b2"}

TypeEnum == {"blog", "social_post", "email", "design_doc", "changelog", "internal_comm"}
StatusEnum == {"draft", "published", "archived"}
PlatformEnum == {"website", "twitter", "linkedin", "email", "slack"}
ChannelStatusEnum == {"pending", "published", "failed"}

\* request inputs
GenerateInputs ==
    {[type |-> "blog", prompt |-> "Announce v2 launch"],
     [type |-> "tweet", prompt |-> "Announce v2 launch"],
     [type |-> "blog", prompt |-> Empty],
     [type |-> "blog", prompt |-> "long"]}
BodyInputs == Bodies \cup {Empty}
StatusInputs == {Undefined, "draft", "published", "archived", "deleted"}
\* req.body of PUT /:id: each body without a status, each status with body b1
UpdateInputs ==
    {[content |-> b, status |-> Undefined] : b \in BodyInputs}
        \cup {[content |-> "b1", status |-> st] : st \in StatusInputs}
\* what the completion call gives: a text, or an error with or without a response
CompletionInputs == Bodies \cup {Empty, "response_error", "error"}
ChannelInputs == {<<>>, <<"website", "email">>, <<"fax">>}
PublishAtInputs == {1, InvalidDate}
\* req.body of POST /:id/schedule: each channel list with a date, one with no date
ScheduleInputs ==
    {[publishAt |-> 1, channels |-> chs] : chs \in ChannelInputs}
        \cup {[publishAt |-> InvalidDate, channels |-> <<"website", "email">>]}
VersionInputs == 1..MaxVersion
IdListInputs == {<<"d1">>, <<"d1", "d2">>, <<"d2">>}
NodeIdInputs == {<<"n1">>}
\* req.body.dimensions of a custom report: fields of the analytics records
DimensionInputs == {{"company"}, {"contentId"}, {"company", "contentId"}}
\* how the calls to the design-tool API end
FigmaInputs == {"ok", "error"}

\* prompt.length of the prompts the model sends
PromptLen(p) ==
    CASE p = Empty -> 0
      [] p = "long" -> MaxPromptLen + 1
      [] OTHER -> 18

\* outcomes of a request: the error thrown to next(), or OK
OK == "OK"
NotFoundError == "NotFoundError"
AuthorizationError == "AuthorizationError"
AuthenticationError == "AuthenticationError"
ValidationError == "ValidationError"
InternalError == "InternalError"
UpstreamServiceError == "UpstreamServiceError"

---------------------------------------------------------------------------
(* Schemas *)

\* the fields the Content schema fills in by default
ContentDefaults ==
    [status |-> "draft", figmaElements |-> <<>>, channels |-> <<>>, schedule |-> <<>>,
     version |-> 1, revisions |-> <<>>, isArchived |-> FALSE]

\* new Content({...}): the given fields over the schema defaults
NewContent(title, type, content, prompt, aiModel, author, company) ==
    [title |-> title, type |-> type, content |-> content,
     metadata |-> [prompt |-> prompt, aiModel |-> aiModel],
     author |-> author, company |-> company] @@ ContentDefaults

\* the validation save() runs on a content document
ValidContent(doc) ==
    /\ doc.title \notin {Undefined, Empty}
    /\ doc.type \in TypeEnum
    /\ doc.content \notin {Undefined, Empty}
    /\ doc.metadata.prompt \notin {Undefined, Empty}
    /\ doc.metadata.aiModel \notin {Undefined, Empty}
    /\ doc.status \in StatusEnum
    /\ doc.author # Undefined
    /\ doc.company # Undefined
    /\ \A i \in 1..Len(doc.channels) :
          /\ doc.channels[i].platform \in PlatformEnum
          /\ doc.channels[i].status \in ChannelStatusEnum
    /\ \A i \in 1..Len(doc.schedule) : doc.schedule[i].publishAt # InvalidDate

\* the validation save() runs on an analytics document
ValidAnalytics(rec) ==
    /\ rec.contentId # Undefined
    /\ rec.company # Undefined

\* new Analytics({contentId, company}): every log empty
NewAnalytics(contentId, company) ==
    [contentId |-> contentId, company |-> company,
     views |-> <<>>, likes |-> <<>>, shares |-> <<>>, comments |-> <<>>,
     sentimentHistory |-> <<>>, timeSeriesData |-> <<>>,
     overall |-> <<>>, daily |-> <<>>, v |-> 0]

\* hasFigmaToken: an access token that has not expired
hasFigmaToken(user) ==
    /\ user.figmaIntegration.accessToken # Undefined
    /\ user.figmaIntegration.tokenExpiry > now

\* addRevision with the new body pushed onto the log instead of the current one
AddRevisionWrongBody(doc, userId, newContent, changeLog) ==
    [doc EXCEPT !.revisions = Append(@, [content |-> newContent, modifiedBy |-> userId,
                                         version |-> doc.version, changeLog |-> changeLog]),
                !.content = newContent,
                !.version = @ + 1]

\* the in-memory document after addRevision's assignments
addRevision(doc, userId, newContent, changeLog) ==
    [doc EXCEPT !.revisions = Append(@, [content |-> doc.content, modifiedBy |-> userId,
                                         version |-> doc.version, changeLog |-> changeLog]),
                !.content = newContent,
                !.version = @ + 1]

\* channels.map of publishContent and bulkPublishContent
PublishedChannels(channels, date) ==
    [i \in 1..Len(channels) |->
        [platform |-> channels[i], status |-> "published", publishedAt |-> date]]

\* channels.map of scheduleContent
PendingChannels(channels) ==
    [i \in 1..Len(channels) |->
        [platform |-> channels[i], status |-> "pending", publishedAt |-> NoDate]]

\* revisions.find(rev => rev.version === n): the first match, as a sequence
FindRevision(doc, n) ==
    LET hits == {i \in 1..Len(doc.revisions) : doc.revisions[i].version = n}
    IN  IF hits = {} THEN <<>>
        ELSE <<doc.revisions[CHOOSE i \in hits : \A j \in hits : i <= j]>>

---------------------------------------------------------------------------
(* Outcomes *)

Found(id) == id \in DOMAIN contents

\* the handler threw before any save: the stores are as they were
Fail(code) ==
    [contents |-> contents, analytics |-> analytics, code |-> code, returns |-> {}]

\* Content.findById(id) gave no document: null for an ObjectId that is not stored, a
\* CastError for a string that is no ObjectId
Missing(id) ==
    IF id \in ContentIds THEN Fail(NotFoundError) ELSE Fail(InternalError)

\* the handler answered without a write
Answer(returns) ==
    [contents |-> contents, analytics |-> analytics, code |-> OK, returns |-> returns]

\* the store after content.save() of document id
Saved(id, doc) == [contents EXCEPT ![id] = doc]

\* the handler saved document id and then ended with code
Wrote(id, doc, code, returns) ==
    [contents |-> Saved(id, doc), analytics |-> analytics, code |-> code, returns |-> returns]

---------------------------------------------------------------------------
(* contentController.js: the outcome of each handler *)

\* POST /generate
generateContent(u, type, prompt, completion) ==
    LET company == users[u].company._id
        id      == CHOOSE i \in ContentIds : i \notin DOMAIN contents
        content == NewContent(Undefined, type, completion, prompt, "gpt-4", u, company)
        record  == NewAnalytics(id, company)
        stored  == (id :> content) @@ contents
    IN  IF type \notin TypeEnum \/ PromptLen(prompt) = 0 \/ PromptLen(prompt) > MaxPromptLen
        THEN Fail(ValidationError)
        ELSE IF completion = "response_error" THEN Fail(UpstreamServiceError)
        ELSE IF completion = "error" THEN Fail(InternalError)
        ELSE IF ~ValidContent(content) THEN Fail(ValidationError)
        ELSE IF ~ValidAnalytics(record)
        THEN [contents |-> stored, analytics |-> analytics,
              code |-> ValidationError, returns |-> {}]
        ELSE [contents |-> stored, analytics |-> Append(analytics, record),
              code |-> OK, returns |-> {"content"}]

\* POST /improve
improveContent(u, id, completion) ==
    IF ~Found(id) THEN Missing(id)
    ELSE IF contents[id].author # u THEN Fail(AuthorizationError)
    ELSE IF completion = "error" THEN Fail(InternalError)
    ELSE LET doc == addRevision(contents[id], u, completion, "Improved based on feedback")
         IN  IF ValidContent(doc) THEN Wrote(id, doc, OK, {"content"})
             ELSE Fail(ValidationError)

\* GET /:id
getContent(u, id) ==
    IF ~Found(id) THEN Missing(id)
    ELSE IF users[u].company._id = Undefined THEN Fail(InternalError)
    ELSE IF contents[id].company # users[u].company._id THEN Fail(AuthorizationError)
    ELSE LET hits  == {i \in 1..Len(analytics) : analytics[i].contentId = id}
             first == CHOOSE i \in hits : \A j \in hits : i <= j
         IN  [contents |-> contents,
              analytics |-> IF hits = {} THEN analytics
                            ELSE [analytics EXCEPT ![first].views =
                                     Append(@, [timestamp |-> now, source |-> "api"])],
              code |-> OK, returns |-> {"content"}]

\* PUT /:id
updateContent(u, id, newContent, status) ==
    IF ~Found(id) THEN Missing(id)
    ELSE IF contents[id].author # u THEN Fail(AuthorizationError)
    ELSE LET revised == addRevision(contents[id], u, contents[id].content, "Manual update")
             doc     == [revised EXCEPT !.content = newContent,
                                        !.status = IF status \in {Undefined, Empty}
                                                   THEN @ ELSE status]
         IN  IF ~ValidContent(revised) THEN Fail(ValidationError)
             ELSE IF ValidContent(doc) THEN Wrote(id, doc, OK, {"content"})
             ELSE Wrote(id, revised, ValidationError, {})

\* deleteContent removing the document instead of flagging it
deleteContentRemoves(u, id) ==
    IF ~Found(id) THEN Missing(id)
    ELSE IF contents[id].author # u THEN Fail(AuthorizationError)
    ELSE [contents |-> [i \in DOMAIN contents \ {id} |-> contents[i]],
          analytics |-> analytics, code |-> OK, returns |-> {}]

\* DELETE /:id
deleteContent(u, id) ==
    IF ~Found(id) THEN Missing(id)
    ELSE IF contents[id].author # u THEN Fail(AuthorizationError)
    ELSE Wrote(id, [contents[id] EXCEPT !.isArchived = TRUE], OK, {})

\* publishContent adding the requested channels to the list it finds
publishContentMerging(u, id, channels) ==
    IF ~Found(id) THEN Missing(id)
    ELSE IF contents[id].author # u THEN Fail(AuthorizationError)
    ELSE LET doc == [contents[id] EXCEPT
                        !.channels = @ \o PublishedChannels(channels, now),
                        !.status = "published"]
         IN  IF ValidContent(doc) THEN Wrote(id, doc, OK, {"content"})
             ELSE Fail(ValidationError)

\* POST /:id/publish
publishContent(u, id, channels) ==
    IF ~Found(id) THEN Missing(id)
    ELSE IF contents[id].author # u THEN Fail(AuthorizationError)
    ELSE LET doc == [contents[id] EXCEPT
                        !.channels = PublishedChannels(channels, now),
                        !.status = "published"]
         IN  IF ValidContent(doc) THEN Wrote(id, doc, OK, {"content"})
             ELSE Fail(ValidationError)

\* scheduleContent putting the artifact back to draft
scheduleContentToDraft(u, id, publishAt, timezone, channels) ==
    IF ~Found(id) THEN Missing(id)
    ELSE IF contents[id].author # u THEN Fail(AuthorizationError)
    ELSE LET doc == [contents[id] EXCEPT
                        !.schedule = <<[publishAt |-> publishAt, timezone |-> timezone]>>,
                        !.channels = PendingChannels(channels),
                        !.status = "draft"]
         IN  IF ValidContent(doc) THEN Wrote(id, doc, OK, {"content"})
             ELSE Fail(ValidationError)

\* POST /:id/schedule
scheduleContent(u, id, publishAt, timezone, channels) ==
    IF ~Found(id) THEN Missing(id)
    ELSE IF contents[id].author # u THEN Fail(AuthorizationError)
    ELSE LET doc == [contents[id] EXCEPT
                        !.schedule = <<[publishAt |-> publishAt, timezone |-> timezone]>>,
                        !.channels = PendingChannels(channels)]
         IN  IF ValidContent(doc) THEN Wrote(id, doc, OK, {"content"})
             ELSE Fail(ValidationError)

\* the figmaElements a sync stores: one element per node
SyncedElements(fileId, nodeIds) ==
    [i \in 1..Len(nodeIds) |->
        [fileId |-> fileId, nodeId |-> nodeIds[i], type |-> "FRAME", name |-> "node",
         lastSync |-> now]]

\* POST /:id/figma/sync
syncWithFigma(u, id, fileId, nodeIds, figma) ==
    IF ~Found(id) THEN Missing(id)
    ELSE IF ~hasFigmaToken(users[u]) THEN Fail(ValidationError)
    ELSE IF figma # "ok" THEN Fail(UpstreamServiceError)
    ELSE Wrote(id, [contents[id] EXCEPT !.figmaElements = SyncedElements(fileId, nodeIds)],
               OK, {"content", "designTokens"})

\* GET /:id/figma/elements
getFigmaElements(u, id) ==
    IF ~Found(id) THEN Missing(id)
    ELSE Answer({"figmaElements"})

\* GET /:id/versions
getContentVersions(u, id) ==
    IF ~Found(id) THEN Missing(id)
    ELSE Answer({"revisions"})

\* GET /:id/versions/:version
getContentVersion(u, id, version) ==
    IF ~Found(id) THEN Missing(id)
    ELSE IF FindRevision(contents[id], version) = <<>> THEN Fail(NotFoundError)
    ELSE Answer({"revision"})

\* restoreContentVersion taking the artifact back to the restored version number
restoreContentVersionResets(u, id, version) ==
    IF ~Found(id) THEN Missing(id)
    ELSE IF FindRevision(contents[id], version) = <<>> THEN Fail(NotFoundError)
    ELSE LET found   == FindRevision(contents[id], version)[1]
             revised == addRevision(contents[id], u, contents[id].content,
                                    "Restored to version")
             doc     == [revised EXCEPT !.content = found.content, !.version = version]
         IN  IF ValidContent(doc) THEN Wrote(id, doc, OK, {"content"})
             ELSE Fail(ValidationError)

\* POST /:id/versions/:version/restore
restoreContentVersion(u, id, version) ==
    IF ~Found(id) THEN Missing(id)
    ELSE IF FindRevision(contents[id], version) = <<>> THEN Fail(NotFoundError)
    ELSE LET found   == FindRevision(contents[id], version)[1]
             revised == addRevision(contents[id], u, contents[id].content,
                                    "Restored to version")
             doc     == [revised EXCEPT !.content = found.content]
         IN  IF ~ValidContent(revised) THEN Fail(ValidationError)
             ELSE IF ValidContent(doc) THEN Wrote(id, doc, OK, {"content"})
             ELSE Wrote(id, revised, ValidationError, {})

\* Content.find({_id: {$in: contentIds}, company}): the matching ids
CompanyMatches(u, contentIds) ==
    {id \in DOMAIN contents :
        /\ \E i \in 1..Len(contentIds) : contentIds[i] = id
        /\ contents[id].company = users[u].company._id}

\* POST /bulk/publish (admin only)
bulkPublishContent(u, contentIds, channels) ==
    LET found == CompanyMatches(u, contentIds)
        doc(id) == [contents[id] EXCEPT
                       !.channels = PublishedChannels(channels, now),
                       !.status = "published"]
    IN  IF users[u].role # "admin" THEN Fail(AuthorizationError)
        ELSE IF found = {} THEN Fail(NotFoundError)
        ELSE IF \E id \in found : ~ValidContent(doc(id)) THEN Fail(ValidationError)
        ELSE [contents |-> [id \in DOMAIN contents |->
                               IF id \in found THEN doc(id) ELSE contents[id]],
              analytics |-> analytics, code |-> OK, returns |-> {"count"}]

\* POST /bulk/archive (admin only)
bulkArchiveContent(u, contentIds) ==
    LET found == CompanyMatches(u, contentIds)
    IN  IF users[u].role # "admin" THEN Fail(AuthorizationError)
        ELSE [contents |-> [id \in DOMAIN contents |->
                               IF id \in found
                               THEN [contents[id] EXCEPT !.isArchived = TRUE]
                               ELSE contents[id]],
              analytics |-> analytics, code |-> OK, returns |-> {"count"}]

\* POST /bulk/publish as routes/content.js dispatches it: router.post('/:id/publish')
\* is registered first and matches the path with id "bulk", so the request is handled
\* by publishContent and neither checkRole nor bulkPublishContent runs
RouteBulkPublish(u, contentIds, channels) == publishContent(u, "bulk", channels)

\* POST /bulk/archive: no earlier route matches the path
RouteBulkArchive(u, contentIds) == bulkArchiveContent(u, contentIds)

\* Analytics.getByDateRange: the time series of the first record of the artifact that
\* has an entry dated within the range, as a sequence; no company takes part
getByDateRange(records, contentId, startDate, endDate) ==
    LET hits == {i \in 1..Len(records) :
                    /\ records[i].contentId = contentId
                    /\ \E j \in 1..Len(records[i].timeSeriesData) :
                          /\ records[i].timeSeriesData[j].date >= startDate
                          /\ records[i].timeSeriesData[j].date <= endDate}
    IN  IF hits = {} THEN <<>>
        ELSE <<records[CHOOSE i \in hits : \A j \in hits : i <= j].timeSeriesData>>

\* GET /:id/analytics with the default range, the trailing 30 days
getContentAnalytics(u, id) ==
    IF getByDateRange(analytics, id, now - 30, now) = <<>> THEN Fail(NotFoundError)
    ELSE Answer({"analytics"})

---------------------------------------------------------------------------
(* analyticsController.js *)

\* the pipeline of generateCustomReport without filters, metrics or sort: one group
\* per combination of the dimensions' values over the records of the collection
CustomReport(records, dimensions) ==
    {[d \in dimensions |-> records[i][d]] : i \in 1..Len(records)}

\* GET /user-activity (admin only)
getUserActivity(u) ==
    IF users[u].role # "admin" THEN Fail(AuthorizationError)
    ELSE Answer({"activity"})

\* POST /reports/custom (admin only)
generateCustomReport(u, dimensions) ==
    IF users[u].role # "admin" THEN Fail(AuthorizationError)
    ELSE Answer({"report"})

\* `this` inside a handler: the routes hand analyticsController.<method> to the router
\* without its object, and Express calls it as a plain function
This == Undefined

\* a JavaScript number: NaN, or a value
Number(value) == [nan |-> FALSE, value |-> value]
NaN == [nan |-> TRUE, value |-> 0]

\* a / b of JavaScript over the integers of the model: 0 / 0 is NaN
Quotient(a, b) == IF b = 0 THEN NaN ELSE Number(a \div b)

\* res.json(body): the numeric fields of the response in body, the names of all its
\* fields in returns
Report(returns, body) ==
    [contents |-> contents, analytics |-> analytics, code |-> OK,
     returns |-> returns, body |-> body]

\* $match {company, 'timeSeriesData.date': range} then $unwind: every entry of the
\* records of the company that have an entry within the range
RECURSIVE Unwind(_, _, _, _)
Unwind(records, company, startDate, endDate) ==
    IF records = <<>> THEN <<>>
    ELSE LET record == Head(records)
             rest   == Unwind(Tail(records), company, startDate, endDate)
         IN  IF /\ record.company = company
                /\ \E j \in 1..Len(record.timeSeriesData) :
                      /\ record.timeSeriesData[j].date >= startDate
                      /\ record.timeSeriesData[j].date <= endDate
             THEN record.timeSeriesData \o rest
             ELSE rest

\* $sum of one metric over the entries
RECURSIVE SumMetric(_, _)
SumMetric(entries, metric) ==
    IF entries = <<>> THEN 0
    ELSE Head(entries).metrics[metric] + SumMetric(Tail(entries), metric)

\* $sum of likes + shares + comments over the entries
TotalEngagement(entries) ==
    SumMetric(entries, "likes") + SumMetric(entries, "shares")
        + SumMetric(entries, "comments")

\* GET /dashboard with the default range: the grouped counts go through
\* this.formatContentMetrics
getDashboardAnalytics(u) ==
    LET entries == Unwind(analytics, users[u].company._id, now - 30, now)
    IN  IF This = Undefined THEN Fail(InternalError)
        ELSE IF entries = <<>>
        THEN Report({"contentMetrics", "analyticsMetrics"},
                    [totalViews |-> Number(0), totalEngagement |-> Number(0),
                     averageSentiment |-> Number(0)])
        ELSE Report({"contentMetrics", "analyticsMetrics"},
                    [totalViews |-> Number(SumMetric(entries, "views")),
                     totalEngagement |-> Number(TotalEngagement(entries)),
                     averageSentiment |->
                         Quotient(SumMetric(entries, "sentiment"), Len(entries))])

\* GET /engagement with the default range
getEngagementMetrics(u) ==
    LET entries == Unwind(analytics, users[u].company._id, now - 30, now)
    IN  IF entries = <<>>
        THEN Report({"engagement"},
                    [likes |-> Number(0), shares |-> Number(0), comments |-> Number(0),
                     totalEngagement |-> Number(0)])
        ELSE Report({"engagement"},
                    [likes |-> Number(SumMetric(entries, "likes")),
                     shares |-> Number(SumMetric(entries, "shares")),
                     comments |-> Number(SumMetric(entries, "comments")),
                     totalEngagement |-> Number(TotalEngagement(entries))])

\* GET /sentiment with the default range: the records of the company with an entry
\* within the range, grouped; no record ever carries a sentiment score
getSentimentAnalysis(u) ==
    LET matched == {i \in 1..Len(analytics) :
                       Unwind(<<analytics[i]>>, users[u].company._id, now - 30, now)
                           # <<>>}
    IN  IF matched = {}
        THEN Report({"sentiment"}, [averageSentiment |-> Number(0)])
        ELSE Report({"sentiment"}, [averageSentiment |-> NaN])

\* GET /timeseries: the format of the group key comes from this.getDateFormat
getTimeSeriesData(u, startDate, endDate) ==
    IF This = Undefined THEN Fail(InternalError)
    ELSE Report({"timeSeries"}, <<>>)

\* formatExportData: rows for csv, a summary for pdf, the records for json; the
\* average of the pdf summary is a sum over scores divided by the number of records,
\* and no record carries a score
formatExportData(data, format) ==
    IF format = "pdf"
    THEN [totalContent |-> Number(Len(data)),
          totalViews |-> Number(SumMetric([i \in 1..Len(data) |->
                                [metrics |-> [views |-> Len(data[i].views)]]], "views")),
          averageSentiment |-> IF data = <<>> THEN Quotient(0, Len(data)) ELSE NaN]
    ELSE <<>>

\* GET /export with the default range: the records of the company go through
\* this.formatExportData
exportAnalytics(u, format) ==
    LET data == SelectSeq(analytics, LAMBDA record :
                              record.company = users[u].company._id)
    IN  IF This = Undefined THEN Fail(InternalError)
        ELSE Report({"data"}, formatExportData(data, format))

\* calculatePercentageChange, the division rounded to an integer
calculatePercentageChange(oldValue, newValue) ==
    IF oldValue = 0 THEN (IF newValue = 0 THEN 0 ELSE 100)
    ELSE ((newValue - oldValue) * 100) \div oldValue

\* the $group of one period of compareAnalytics: nothing when no entry matches
PeriodData(u, period, metric) ==
    LET entries == Unwind(analytics, users[u].company._id, period[1], period[2])
    IN  IF entries = <<>> THEN <<>>
        ELSE <<[total |-> SumMetric(entries, metric),
                average |-> SumMetric(entries, metric) \div Len(entries)]>>

\* GET /compare: the changes come from this.calculatePercentageChange
compareAnalytics(u, period1, period2, metric) ==
    LET period1Data == PeriodData(u, period1, metric)
        period2Data == PeriodData(u, period2, metric)
        Total(data) == IF data = <<>> THEN 0 ELSE data[1].total
        Average(data) == IF data = <<>> THEN 0 ELSE data[1].average
    IN  IF This = Undefined THEN Fail(InternalError)
        ELSE Report({"comparison"},
                    [period1Total |-> Number(Total(period1Data)),
                     period1Average |-> Number(Average(period1Data)),
                     period2Total |-> Number(Total(period2Data)),
                     period2Average |-> Number(Average(period2Data)),
                     totalChange |-> Number(calculatePercentageChange(
                                        Total(period1Data), Total(period2Data))),
                     averageChange |-> Number(calculatePercentageChange(
                                        Average(period1Data), Average(period2Data)))])

\* req.query of the analytics routes
FormatInputs == {"csv", "json", "pdf"}
MetricInputs == {"views", "engagement", "sentiment"}
PeriodInputs == {<<0, 1>>, <<1, 2>>}

---------------------------------------------------------------------------
(* figmaController.js *)

\* POST /sync of the design-tool routes: the calls carry the account's token as it is
syncDesignElements(u, fileId, nodeIds, contentId, figma) ==
    IF figma # "ok" \/ users[u].figmaIntegration.accessToken = Undefined
    THEN Fail(UpstreamServiceError)
    ELSE IF contentId # Undefined /\ Found(contentId)
    THEN Wrote(contentId,
               [contents[contentId] EXCEPT !.figmaElements = SyncedElements(fileId, nodeIds)],
               OK, {"elements"})
    ELSE Answer({"elements"})

---------------------------------------------------------------------------
(* routes/*.js: every route under /api with the middlewares registered in  *)
(* front of its handler, the validation chains left out (they reject       *)
(* nothing by themselves).                                                 *)

Route(router, route, guards) == [router |-> router, route |-> route, guards |-> guards]

AuthRoutes ==
    {Route("auth", r, <<>>) :
        r \in {"POST /register", "POST /login", "POST /refresh-token",
                "POST /forgot-password", "POST /reset-password"}}
    \cup
    {Route("auth", r, <<"authenticateToken">>) :
        r \in {"POST /logout", "GET /profile", "PUT /profile", "POST /api-key",
                "DELETE /api-key", "POST /figma/connect", "DELETE /figma/disconnect",
                "PUT /settings"}}

ContentRoutes ==
    {Route("content", r, <<>>) :
        r \in {"POST /generate", "POST /improve", "GET /", "GET /:id", "PUT /:id",
                "DELETE /:id", "POST /:id/publish", "POST /:id/schedule",
                "GET /:id/analytics", "POST /:id/figma/sync", "GET /:id/figma/elements",
                "GET /:id/versions", "GET /:id/versions/:version",
                "POST /:id/versions/:version/restore"}}
    \cup
    {Route("content", r, <<"checkRole">>) : r \in {"POST /bulk/publish", "POST /bulk/archive"}}

AnalyticsRoutes ==
    {Route("analytics", r, <<>>) :
        r \in {"GET /dashboard", "GET /content/performance", "GET /engagement",
                "GET /sentiment", "GET /distribution", "GET /timeseries",
                "GET /content-types", "GET /channel-performance", "GET /export",
                "GET /compare", "GET /realtime"}}
    \cup
    {Route("analytics", r, <<"checkRole">>) :
        r \in {"GET /user-activity", "POST /reports/custom"}}

FigmaRoutes ==
    {Route("figma", r, <<>>) :
        r \in {"GET /files/:fileId", "GET /files/:fileId/nodes", "GET /files/:fileId/images",
                "GET /files/:fileId/comments", "POST /files/:fileId/comments",
                "GET /files/:fileId/design-tokens", "POST /sync", "GET /sync/status/:syncId",
                "GET /team/:teamId/libraries", "GET /libraries/:fileId/components",
                "GET /files/:fileId/styles", "POST /styles/apply",
                "GET /files/:fileId/versions",
                "POST /files/:fileId/versions/:versionId/restore", "POST /export",
                "POST /webhooks", "DELETE /webhooks/:webhookId", "GET /teams",
                "GET /team/:teamId/projects", "GET /search", "POST /batch"}}

Routes == AuthRoutes \cup ContentRoutes \cup AnalyticsRoutes \cup FigmaRoutes

\* router.use(authenticateToken) of the content, analytics and figma routers
RouterUse(router) ==
    IF router = "auth" THEN <<>> ELSE <<"authenticateToken">>

\* the middlewares a request to the route passes before the handler, in order
Chain(r) == RouterUse(r.router) \o r.guards

\* the Authorization header of a request: absent, no JWT, an expired JWT, the JWT of
\* an account that is not stored, or the JWT of a stored account
CredentialInputs == {"none", "malformed", "expired", "unknown_user", "valid"}
RoleEnum == {"user", "admin", "editor"}

\* authenticateToken: next() with req.user set, or next(error)
authenticateToken(credential) ==
    IF credential = "valid" THEN "next" ELSE AuthenticationError

\* checkRole(['admin'])
checkRole(authenticated, role) ==
    IF ~authenticated THEN AuthenticationError
    ELSE IF role # "admin" THEN AuthorizationError
    ELSE "next"

\* where a request with the credential, of an account with the role, ends on a chain
\* of middlewares: at the error a middleware gives to next(), or at the handler
RECURSIVE Through(_, _, _, _)
Through(chain, authenticated, credential, role) ==
    IF chain = <<>> THEN "handler"
    ELSE LET step == IF Head(chain) = "authenticateToken"
                     THEN authenticateToken(credential)
                     ELSE checkRole(authenticated, role)
         IN  IF step # "next" THEN step
             ELSE Through(Tail(chain),
                          authenticated \/ Head(chain) = "authenticateToken",
                          credential, role)

\* where the request ends on the route
Dispatch(r, credential, role) == Through(Chain(r), FALSE, credential, role)

---------------------------------------------------------------------------
(* The stores when the server starts.  u1 (company c1) is the author of    *)
(* artifact d1, which is as new Content() and the schema defaults make an  *)
(* artifact, with its analytics record; u2 is an admin of c1 without a     *)
(* design-tool integration, u3 an admin of company c2.  u1, u2 and u3 carry *)
(* the company._id the controllers read; u4 is an editor and an account as *)
(* the User schema stores it, with a company that has a name and no _id.   *)
StoredUsers ==
    [u \in UserIds |->
        [email |-> u, name |-> "n1", password |-> "hash", apiKey |-> Undefined,
         role |-> CASE u = "u1" -> "user"
                    [] u = "u4" -> "editor"
                    [] OTHER -> "admin",
         company |-> [_id |-> CASE u = "u3" -> "c2"
                                [] u = "u4" -> Undefined
                                [] OTHER -> "c1"],
         figmaIntegration |->
             [accessToken |-> IF u \in {"u2", "u4"} THEN Undefined ELSE "tok",
              tokenExpiry |-> 2]]]

\* the content and analytics stores, the clock and the bookkeeping at the start
InitStores ==
    /\ contents = [id \in {"d1"} |->
                     NewContent("t1", "blog", "b1", "p1", "gpt-4", "u1", "c1")]
    /\ analytics = <<NewAnalytics("d1", "c1")>>
    /\ now = 1
    /\ edits = [id \in ContentIds |-> 0]
    /\ sent = <<>>
    /\ header = Undefined
    /\ pending = [u \in UserIds |-> <<>>]
    /\ calls = <<>>

Init ==
    /\ users = StoredUsers
    /\ InitStores
    /\ file = [fills |-> <<>>, style |-> <<>>, padding |-> <<>>, effects |-> <<>>,
               children |-> <<>>]

\* the stores become what the handler left
Handled(outcome) ==
    /\ contents' = outcome.contents
    /\ analytics' = outcome.analytics
    /\ UNCHANGED <<users, now, sent, header, pending, calls, file>>

\* an edit request on artifact id, counted when it ended without an error
Edited(id, outcome) ==
    /\ Found(id) => contents[id].version < MaxVersion
    /\ Handled(outcome)
    /\ edits' = IF outcome.code = OK THEN [edits EXCEPT ![id] = @ + 1] ELSE edits

\* any other request
Served(outcome) ==
    /\ \A i \in 1..Len(outcome.analytics) : Len(outcome.analytics[i].views) <= MaxViews
    /\ Handled(outcome)
    /\ UNCHANGED edits

\* authenticateToken: the bearer token names a stored account
Authenticated(u) == u \in DOMAIN users

Generate ==
    \E u \in UserIds, req \in GenerateInputs, completion \in CompletionInputs :
        /\ Authenticated(u)
        /\ req.type \in TypeEnum \/ completion = "b1"
        /\ \E i \in ContentIds : i \notin DOMAIN contents
        /\ Served(generateContent(u, req.type, req.prompt, completion))

Improve ==
    \E u \in Senders, id \in ContentIds, completion \in CompletionInputs \ {"response_error"} :
        /\ Authenticated(u)
        /\ Edited(id, improveContent(u, id, completion))

Get ==
    \E u \in UserIds, id \in ContentIds :
        /\ Authenticated(u)
        /\ Served(getContent(u, id))

Update ==
    \E u \in Senders, id \in ContentIds, req \in UpdateInputs :
        /\ Authenticated(u)
        /\ Edited(id, updateContent(u, id, req.content, req.status))

Delete ==
    \E u \in Senders, id \in ContentIds :
        /\ Authenticated(u)
        /\ Served(deleteContent(u, id))

Publish ==
    \E u \in Senders, id \in ContentIds, chs \in ChannelInputs :
        /\ Authenticated(u)
        /\ Served(publishContent(u, id, chs))

Schedule ==
    \E u \in Senders, id \in ContentIds, req \in ScheduleInputs :
        /\ Authenticated(u)
        /\ Served(scheduleContent(u, id, req.publishAt, "UTC", req.channels))

FigmaSync ==
    \E u \in UserIds, id \in ContentIds, nodeIds \in NodeIdInputs, figma \in FigmaInputs :
        /\ Authenticated(u)
        /\ Served(syncWithFigma(u, id, "f1", nodeIds, figma))

GetFigmaElements ==
    \E u \in UserIds, id \in ContentIds :
        /\ Authenticated(u)
        /\ Served(getFigmaElements(u, id))

GetVersions ==
    \E u \in UserIds, id \in ContentIds :
        /\ Authenticated(u)
        /\ Served(getContentVersions(u, id))

GetVersion ==
    \E u \in Senders, id \in ContentIds, n \in VersionInputs :
        /\ Authenticated(u)
        /\ Served(getContentVersion(u, id, n))

Restore ==
    \E u \in Senders, id \in ContentIds, n \in VersionInputs :
        /\ Authenticated(u)
        /\ Edited(id, restoreContentVersion(u, id, n))

BulkPublish ==
    \E u \in Senders, ids \in IdListInputs, chs \in ChannelInputs :
        /\ Authenticated(u)
        /\ Served(RouteBulkPublish(u, ids, chs))

BulkArchive ==
    \E u \in UserIds, ids \in IdListInputs :
        /\ Authenticated(u)
        /\ Served(RouteBulkArchive(u, ids))

DesignSync ==
    \E u \in UserIds, id \in ContentIds \cup {Undefined}, nodeIds \in NodeIdInputs,
       figma \in FigmaInputs :
        /\ Authenticated(u)
        /\ Served(syncDesignElements(u, "f1", nodeIds, id, figma))

ContentAnalytics ==
    \E u \in UserIds, id \in ContentIds :
        /\ Authenticated(u)
        /\ Served(getContentAnalytics(u, id))

UserActivity ==
    \E u \in UserIds :
        /\ Authenticated(u)
        /\ Served(getUserActivity(u))

CustomReportRequest ==
    \E u \in UserIds, dimensions \in DimensionInputs :
        /\ Authenticated(u)
        /\ Served(generateCustomReport(u, dimensions))

DashboardAnalytics ==
    \E u \in UserIds :
        /\ Authenticated(u)
        /\ Served(getDashboardAnalytics(u))

EngagementMetrics ==
    \E u \in UserIds :
        /\ Authenticated(u)
        /\ Served(getEngagementMetrics(u))

SentimentAnalysis ==
    \E u \in UserIds :
        /\ Authenticated(u)
        /\ Served(getSentimentAnalysis(u))

TimeSeriesData ==
    \E u \in UserIds, period \in PeriodInputs :
        /\ Authenticated(u)
        /\ Served(getTimeSeriesData(u, period[1], period[2]))

ExportAnalytics ==
    \E u \in UserIds, format \in FormatInputs :
        /\ Authenticated(u)
        /\ Served(exportAnalytics(u, format))

CompareAnalytics ==
    \E u \in UserIds, period1 \in PeriodInputs, period2 \in PeriodInputs,
       metric \in MetricInputs :
        /\ Authenticated(u)
        /\ Served(compareAnalytics(u, period1, period2, metric))

Next ==
    \/ Generate
    \/ Improve
    \/ Get
    \/ Update
    \/ Delete
    \/ Publish
    \/ Schedule
    \/ FigmaSync
    \/ GetFigmaElements
    \/ GetVersions
    \/ GetVersion
    \/ Restore
    \/ BulkPublish
    \/ BulkArchive
    \/ DesignSync
    \/ ContentAnalytics
    \/ UserActivity
    \/ CustomReportRequest
    \/ DashboardAnalytics
    \/ EngagementMetrics
    \/ SentimentAnalysis
    \/ TimeSeriesData
    \/ ExportAnalytics
    \/ CompareAnalytics

Spec == Init /\ [][Next]_vars

---------------------------------------------------------------------------
(* The account routes of routes/auth.js over the account documents.  The   *)
(* handlers of authController give an outcome: the accounts after it, how  *)
(* it ended and the serialized account of its response, if it sends one.   *)

\* the fields toJSON deletes
Sensitive == {"password", "apiKey", "figmaIntegration"}

\* toJSON that deletes the hash and the key and keeps the integration
toJSONKeepsIntegration(doc) ==
    [f \in DOMAIN doc \ {"password", "apiKey"} |-> doc[f]]

\* userSchema.methods.toJSON: toObject() without password, apiKey, figmaIntegration
toJSON(doc) ==
    [f \in DOMAIN doc \ Sensitive |-> doc[f]]

\* a figmaIntegration that is not set
NoIntegration == [accessToken |-> Undefined, tokenExpiry |-> NoDate]

AccountFail(code) == [users |-> users, code |-> code, sent |-> <<>>]

\* GET /profile
getProfile(u) ==
    [users |-> users, code |-> OK, sent |-> <<toJSON(users[u])>>]

\* PUT /profile with a name
updateProfile(u, name) ==
    IF name = Empty THEN AccountFail(ValidationError)
    ELSE LET updated == [users EXCEPT ![u].name = name]
         IN  [users |-> updated, code |-> OK, sent |-> <<toJSON(updated[u])>>]

\* POST /api-key: User.js reads crypto without requiring it, generateApiKey throws
generateApiKey(u) == AccountFail(InternalError)

\* DELETE /api-key
revokeApiKey(u) ==
    [users |-> [users EXCEPT ![u].apiKey = Undefined], code |-> OK, sent |-> <<>>]

\* POST /figma/connect: the token is stored once the test call went through, with a
\* lastSync and without an expiry
connectFigma(u, accessToken, figma) ==
    IF accessToken \in {Undefined, Empty} THEN AccountFail(ValidationError)
    ELSE IF figma # "ok" THEN AccountFail(UpstreamServiceError)
    ELSE [users |-> [users EXCEPT ![u].figmaIntegration =
                        [accessToken |-> accessToken, tokenExpiry |-> NoDate]],
          code |-> OK, sent |-> <<>>]

\* DELETE /figma/disconnect
disconnectFigma(u) ==
    [users |-> [users EXCEPT ![u].figmaIntegration = NoIntegration],
     code |-> OK, sent |-> <<>>]

\* the accounts the account routes are followed for
AccountIds == {"u1", "u2"}
NameInputs == {"n1", "n2", Empty}
TokenInputs == {"tok", "tok2", Undefined}

\* any account document the User schema allows for the two accounts: with or
\* without an API key, with or without an integration
InitAccounts ==
    /\ \E keys \in [AccountIds -> {Undefined, "key"}],
          tokens \in [AccountIds -> {Undefined, "tok"}] :
          users = [u \in UserIds |->
                     IF u \in AccountIds
                     THEN [StoredUsers[u] EXCEPT
                              !.apiKey = keys[u],
                              !.figmaIntegration =
                                  IF tokens[u] = Undefined THEN NoIntegration
                                  ELSE [accessToken |-> tokens[u], tokenExpiry |-> 2]]
                     ELSE StoredUsers[u]]
    /\ InitStores
    /\ file = [fills |-> <<>>, style |-> <<>>, padding |-> <<>>, effects |-> <<>>,
               children |-> <<>>]

\* the accounts and the response become what the handler left
AccountHandled(outcome) ==
    /\ users' = outcome.users
    /\ sent' = outcome.sent
    /\ UNCHANGED <<contents, analytics, now, edits, header, pending, calls, file>>

GetProfile ==
    \E u \in AccountIds :
        /\ Authenticated(u)
        /\ AccountHandled(getProfile(u))

UpdateProfile ==
    \E u \in AccountIds, name \in NameInputs :
        /\ Authenticated(u)
        /\ AccountHandled(updateProfile(u, name))

GenerateApiKey ==
    \E u \in AccountIds :
        /\ Authenticated(u)
        /\ AccountHandled(generateApiKey(u))

RevokeApiKey ==
    \E u \in AccountIds :
        /\ Authenticated(u)
        /\ AccountHandled(revokeApiKey(u))

ConnectFigma ==
    \E u \in AccountIds, accessToken \in TokenInputs, figma \in FigmaInputs :
        /\ Authenticated(u)
        /\ AccountHandled(connectFigma(u, accessToken, figma))

DisconnectFigma ==
    \E u \in AccountIds :
        /\ Authenticated(u)
        /\ AccountHandled(disconnectFigma(u))

\* the client sends the account it received through serialization once more
Reserialize ==
    /\ sent # <<>>
    /\ sent' = <<toJSON(sent[1])>>
    /\ UNCHANGED <<users, contents, analytics, now, edits, header, pending, calls, file>>

NextAccounts ==
    \/ GetProfile
    \/ UpdateProfile
    \/ GenerateApiKey
    \/ RevokeApiKey
    \/ ConnectFigma
    \/ DisconnectFigma
    \/ Reserialize

SpecAccounts == InitAccounts /\ [][NextAccounts]_vars

---------------------------------------------------------------------------
(* errorHandler.js: from the error a handler passes on to the response status *)

\* class APIError: name 'APIError' and the status code it was built with
APIError(statusCode) ==
    [name |-> "APIError", statusCode |-> statusCode, code |-> Undefined]

\* an error of another library, known by its name
NamedError(name) == [name |-> name, statusCode |-> Undefined, code |-> Undefined]

\* the catch block of AIService.generateContent: 503 for an error that carries a
\* response, 500 for every other one (a timeout, a refused connection)
CompletionFailure(completion) ==
    IF completion = "response_error" THEN APIError(503) ELSE APIError(500)

\* the status errorHandler answers with
errorHandler(err) ==
    IF err.name = "ValidationError" THEN 400
    ELSE IF err.name \in {"JsonWebTokenError", "TokenExpiredError"} THEN 401
    ELSE IF err.statusCode = 404 THEN 404
    ELSE IF err.name = "MongoError" /\ err.code = 11000 THEN 409
    ELSE IF err.statusCode = 429 THEN 429
    ELSE IF err.name \in {"OpenAIError", "FigmaError"} THEN 503
    ELSE 500

\* the completions that are a failure of the call
FailureInputs == {"response_error", "error"}

---------------------------------------------------------------------------
(* aiService: the prompt of a generation. A template is the sequence of its
   pieces, a placeholder being one piece. *)

\* the piece `{key}` of a template, for each key the templates name
Token ==
    [topic |-> "{topic}", tone |-> "{tone}", audience |-> "{audience}",
     points |-> "{points}", platform |-> "{platform}", hashtags |-> "{hashtags}",
     type |-> "{type}", cta |-> "{cta}", version |-> "{version}",
     message |-> "{message}"]

Placeholders == {Token[key] : key \in DOMAIN Token}

promptTemplates ==
    [blog |-> <<"Write a professional blog post about", "{topic}", "Tone:", "{tone}",
                "Target audience:", "{audience}", "Key points to cover:", "{points}">>,
     social_post |-> <<"Create a engaging social media post about", "{topic}",
                       "Platform:", "{platform}", "Tone:", "{tone}",
                       "Include hashtags:", "{hashtags}">>,
     email |-> <<"Write a", "{type}", "email about", "{topic}", "Tone:", "{tone}",
                 "Target audience:", "{audience}", "Call to action:", "{cta}">>,
     design_doc |-> <<"Create a detailed design documentation for", "{topic}",
                      "Include sections for: ...">>,
     changelog |-> <<"Write a changelog entry for", "{topic}", "Type:", "{type}",
                     "Version:", "{version}", "Include sections for: ...">>,
     internal_comm |-> <<"Create an internal communication about", "{topic}",
                         "Type:", "{type}", "Audience:", "{audience}",
                         "Key message:", "{message}">>]

\* formatPrompt: every `{key}` of the template whose key is in params becomes
\* params[key]; every other piece stays
formatPrompt(type, params) ==
    LET template == promptTemplates[type]
        Keys(piece) == {key \in DOMAIN params \cap DOMAIN Token : Token[key] = piece}
    IN  [i \in 1..Len(template) |->
            IF Keys(template[i]) # {}
            THEN params[CHOOSE key \in Keys(template[i]) : TRUE]
            ELSE template[i]]

\* req.body.params: absent, with the topic, with every key of the blog template
ParamInputs ==
    {<<>>,
     [topic |-> "v2"],
     [topic |-> "v2", audience |-> "developers", points |-> "speed"]}

\* {...params, prompt, tone}: what generateContent of the controller hands over
ServiceParams(u, prompt, params) ==
    [key \in DOMAIN params \cup {"prompt", "tone"} |->
        CASE key = "prompt" -> prompt
          [] key = "tone" -> "professional"
          [] OTHER -> params[key]]

\* AIService.generateContent: the prompt is formatted, the completion API is called
\* with it, and a failure of the call is passed on
aiGenerateContent(type, params, completion) ==
    LET prompt == formatPrompt(type, params)
    IN  [prompt |-> prompt,
         called |-> TRUE,
         code |-> IF completion = "response_error" THEN UpstreamServiceError
                  ELSE IF completion = "error" THEN InternalError
                  ELSE OK]

\* the placeholders of a template that params has no value for
Unresolved(type, params) ==
    {piece \in {promptTemplates[type][i] : i \in 1..Len(promptTemplates[type])} :
        /\ piece \in Placeholders
        /\ \A key \in DOMAIN params \cap DOMAIN Token : Token[key] # piece}

---------------------------------------------------------------------------
(* figmaService.js: the design tokens of a file.  A color component, a float
   of 0..1 in the file, is counted in thousandths; an object of the file is the
   sequence of its <<key, value>> properties in the order the file lists them. *)

Digits == <<"0", "1", "2", "3", "4", "5", "6", "7", "8", "9",
            "a", "b", "c", "d", "e", "f">>

\* Number.prototype.toString(16) of a positive integer, digit by digit
RECURSIVE toString16(_)
toString16(n) ==
    IF n < 16 THEN <<Digits[n + 1]>>
    ELSE Append(toString16(n \div 16), Digits[(n % 16) + 1])

\* rgbToHex: Math.round(c * 255) of each component, then the digits of
\* (1 << 24) + (r << 16) + (g << 8) + b without the first one, after '#'
rgbToHex(color) ==
    LET round255(c) == (c * 255 * 2 + 1000) \div 2000
        r == round255(color.r)
        g == round255(color.g)
        b == round255(color.b)
    IN  <<"#">> \o Tail(toString16(2^24 + r * 2^16 + g * 2^8 + b))

\* Set.prototype.add on a set kept in insertion order
SetAdd(set, value) ==
    IF \E i \in 1..Len(set) : set[i] = value THEN set ELSE Append(set, value)

RECURSIVE SetAddAll(_, _)
SetAddAll(set, values) ==
    IF values = <<>> THEN set
    ELSE SetAddAll(SetAdd(set, Head(values)), Tail(values))

\* JSON.stringify of an object: its properties in their order, as text.  JSON.parse
\* of that text: the object again, a value for each key
stringify(object) == object
parse(text) == [key \in {text[i][1] : i \in 1..Len(text)} |->
                   LET i == CHOOSE i \in 1..Len(text) : text[i][1] = key
                   IN  text[i][2]]

\* traverseNodes: the colors of the solid fills, the typography of the style, the
\* padding and the effects of the node go into the sets, then the children follow
RECURSIVE traverseNodes(_, _)
RECURSIVE traverseChildren(_, _)
traverseNodes(node, tokens) ==
    LET solid == SelectSeq(node.fills, LAMBDA fill : fill.type = "SOLID")
        here  == [colors |-> SetAddAll(tokens.colors,
                                 [i \in 1..Len(solid) |-> rgbToHex(solid[i].color)]),
                  typography |-> SetAddAll(tokens.typography, node.style),
                  spacing |-> SetAddAll(tokens.spacing, node.padding),
                  effects |-> SetAddAll(tokens.effects,
                                 [i \in 1..Len(node.effects) |->
                                     stringify(node.effects[i])])]
    IN  traverseChildren(node.children, here)

traverseChildren(nodes, tokens) ==
    IF nodes = <<>> THEN tokens
    ELSE traverseChildren(Tail(nodes), traverseNodes(Head(nodes), tokens))

\* extractDesignTokens on the document of the file: the sets as arrays, the
\* serialized ones parsed
extractDesignTokens(document) ==
    LET tokens == traverseNodes(document,
                      [colors |-> <<>>, typography |-> <<>>, spacing |-> <<>>,
                       effects |-> <<>>])
    IN  [colors |-> tokens.colors,
         typography |-> tokens.typography,
         spacing |-> tokens.spacing,
         effects |-> [i \in 1..Len(tokens.effects) |-> parse(tokens.effects[i])]]

\* a node of a file; style and padding are a sequence of one descriptor, or none
Node(fills, style, padding, effects, children) ==
    [fills |-> fills, style |-> style, padding |-> padding, effects |-> effects,
     children |-> children]

\* the documents the design tool serves: solid fills of one color on one node, on
\* two nodes and two levels down, colors that differ, a fill that is not solid, and
\* effects with the same properties listed in the same and in another order
DocumentInputs ==
    LET red    == [type |-> "SOLID", color |-> [r |-> 1000, g |-> 0, b |-> 0]]
        blue   == [type |-> "SOLID", color |-> [r |-> 0, g |-> 0, b |-> 1000]]
        grey   == [type |-> "SOLID", color |-> [r |-> 500, g |-> 500, b |-> 500]]
        fade   == [type |-> "GRADIENT_LINEAR", color |-> [r |-> 0, g |-> 0, b |-> 0]]
        text   == <<[fontFamily |-> "Inter", fontSize |-> 16, fontWeight |-> 400,
                     lineHeight |-> 24]>>
        pad    == <<[top |-> 8, right |-> 8, bottom |-> 8, left |-> 8]>>
        shadow == << <<"type", "DROP_SHADOW">>, <<"radius", "4">> >>
        wodahs == << <<"radius", "4">>, <<"type", "DROP_SHADOW">> >>
        blur   == << <<"type", "LAYER_BLUR">>, <<"radius", "4">> >>
        leaves == {Node(<<grey, grey>>, <<>>, <<>>, <<blur, blur>>, <<>>),
                   Node(<<red>>, text, <<>>, <<shadow>>, <<>>),
                   Node(<<red, red>>, <<>>, pad, <<>>, <<>>),
                   Node(<<blue, fade>>, text, pad, <<wodahs>>, <<>>),
                   Node(<<grey>>, <<>>, <<>>, <<shadow, blur>>, <<>>)}
        empty  == Node(<<>>, <<>>, <<>>, <<>>, <<>>)
        frames == {Node(<<red>>, text, pad, <<shadow>>, <<empty, a>>) : a \in leaves}
    IN  leaves \cup frames
        \cup {Node(<<>>, <<>>, <<>>, <<>>, <<a, empty>>) : a \in frames}

---------------------------------------------------------------------------
(* The design-tool requests, step by step.  A handler runs up to its first
   await in one step: it sets the header of the shared client and makes its
   first outbound call.  It goes on when the call is answered, and other
   requests run in between.  A call carries the header as it is when made. *)

\* the outbound calls of each handler, in order (one element to synchronize)
OutboundCalls ==
    [syncDesignElements |-> <<"getFile", "getNodes", "getImages">>,
     syncWithFigma |-> <<"getNodes", "getFile">>,
     connectFigma |-> <<"getFile">>,
     extractDesignTokens |-> <<"getFile">>]

\* an outbound call: made for the request of account, which set the header to own,
\* and carrying token
Call(account, name, own, token) ==
    [account |-> account, name |-> name, own |-> own, token |-> token]

\* figmaService.setAccessToken(token) and the first call of the handler, then await
Begin(u, handler, token, id) ==
    /\ pending[u] = <<>>
    /\ header' = token
    /\ calls' = <<Call(u, Head(OutboundCalls[handler]), token, token)>>
    /\ pending' = [pending EXCEPT ![u] =
                      <<[handler |-> handler, rest |-> Tail(OutboundCalls[handler]),
                         own |-> token, id |-> id]>>]
    /\ UNCHANGED <<users, contents, analytics, now, edits, sent, file>>

\* POST /sync: syncDesignElements up to await figmaService.getFile(fileId)
BeginDesignSync ==
    \E u \in Senders, id \in ContentIds \cup {Undefined} :
        /\ Authenticated(u)
        /\ Begin(u, "syncDesignElements", users[u].figmaIntegration.accessToken, id)

\* POST /:id/figma/sync: syncWithFigma up to await figmaService.getNodes(...)
BeginContentSync ==
    \E u \in Senders, id \in ContentIds :
        /\ Authenticated(u)
        /\ Found(id)
        /\ hasFigmaToken(users[u])
        /\ Begin(u, "syncWithFigma", users[u].figmaIntegration.accessToken, id)

\* POST /figma/connect: connectFigma up to await figmaService.getFile('test')
BeginConnect ==
    \E u \in Senders :
        /\ Authenticated(u)
        /\ Begin(u, "connectFigma", "tok2", Undefined)

\* GET /files/:fileId/design-tokens: extractDesignTokens up to the await of getFile
BeginExtract ==
    \E u \in Senders :
        /\ Authenticated(u)
        /\ Begin(u, "extractDesignTokens", users[u].figmaIntegration.accessToken,
                 Undefined)

\* the call was answered and the handler makes its next one
Resume ==
    \E u \in Senders :
        /\ Authenticated(u)
        /\ pending[u] # <<>>
        /\ pending[u][1].rest # <<>>
        /\ calls' = <<Call(u, Head(pending[u][1].rest), pending[u][1].own, header)>>
        /\ pending' = [pending EXCEPT ![u] =
                          <<[pending[u][1] EXCEPT !.rest = Tail(@)]>>]
        /\ UNCHANGED <<users, contents, analytics, now, edits, sent, header, file>>

\* the last call was answered: the handler saves and responds
Complete ==
    \E u \in Senders :
        /\ Authenticated(u)
        /\ pending[u] # <<>>
        /\ pending[u][1].rest = <<>>
        /\ pending' = [pending EXCEPT ![u] = <<>>]
        /\ LET request == pending[u][1]
               nodeIds == CHOOSE n \in NodeIdInputs : TRUE
               synced  == IF request.handler = "syncDesignElements"
                          THEN syncDesignElements(u, "f1", nodeIds, request.id, "ok")
                          ELSE IF request.handler = "syncWithFigma"
                          THEN syncWithFigma(u, request.id, "f1", nodeIds, "ok")
                          ELSE Answer({})
           IN  /\ contents' = synced.contents
               /\ analytics' = synced.analytics
               /\ users' = IF request.handler = "connectFigma"
                           THEN connectFigma(u, request.own, "ok").users
                           ELSE users
               /\ sent' = IF request.handler = "extractDesignTokens"
                          THEN <<extractDesignTokens(file)>>
                          ELSE sent
        /\ UNCHANGED <<now, edits, header, calls, file>>

\* two accounts with an integration each, of different tokens, and any of the
\* documents
InitFigma ==
    /\ users = [StoredUsers EXCEPT !["u3"].figmaIntegration.accessToken = "tok3"]
    /\ InitStores
    /\ file \in DocumentInputs

NextFigma ==
    \/ BeginDesignSync
    \/ BeginContentSync
    \/ BeginConnect
    \/ BeginExtract
    \/ Resume
    \/ Complete

SpecFigma == InitFigma /\ [][NextFigma]_vars

---------------------------------------------------------------------------
(* models/Analytics.js: the methods of an analytics record.  A method works on
   the document a request loaded; save() sends what the method changed: the
   entries it pushed are appended to the stored arrays, the paths it assigned
   are set, and the version v goes up.  An assignment to an array index is sent
   under the version the document was loaded with and is rejected when the
   stored one has moved on.  Dates are days; overall and daily are sequences of
   at most one value, none before the first computation. *)

\* filter(e => e.timestamp.toDateString() === today.toDateString()).length
TodayCount(log, today) ==
    Len(SelectSeq(log, LAMBDA entry : entry.timestamp = today))

\* toDateString() of a timestamp that is not set throws
RecomputeThrows(doc) ==
    \E log \in {doc.views, doc.likes, doc.shares, doc.comments} :
        \E i \in 1..Len(log) : log[i].timestamp = NoDate

\* updateTimeSeriesData that pushes the entry of today whether or not there is one
updateTimeSeriesDataPushes(doc, today) ==
    [doc EXCEPT !.timeSeriesData =
        Append(@, [date |-> today,
                   metrics |-> [views |-> TodayCount(doc.views, today),
                                likes |-> TodayCount(doc.likes, today),
                                shares |-> TodayCount(doc.shares, today),
                                comments |-> TodayCount(doc.comments, today),
                                sentiment |-> doc.overall]])]

\* updateTimeSeriesData: the entry of today is overwritten, or pushed when there is
\* none
updateTimeSeriesData(doc, today) ==
    LET todayMetrics == [date |-> today,
                         metrics |-> [views |-> TodayCount(doc.views, today),
                                      likes |-> TodayCount(doc.likes, today),
                                      shares |-> TodayCount(doc.shares, today),
                                      comments |-> TodayCount(doc.comments, today),
                                      sentiment |-> doc.overall]]
        existing == {i \in 1..Len(doc.timeSeriesData) :
                        doc.timeSeriesData[i].date = today}
    IN  IF existing # {}
        THEN [doc EXCEPT !.timeSeriesData[CHOOSE i \in existing :
                                             \A j \in existing : i <= j] = todayMetrics]
        ELSE [doc EXCEPT !.timeSeriesData = Append(@, todayMetrics)]

\* updateAggregates whose daily aggregate counts the views of every day
updateAggregatesAllDays(doc, today) ==
    [updateTimeSeriesData(doc, today) EXCEPT !.daily =
        <<[date |-> today,
           views |-> Len(doc.views),
           likes |-> TodayCount(doc.likes, today),
           shares |-> TodayCount(doc.shares, today),
           comments |-> TodayCount(doc.comments, today),
           sentiment |-> doc.overall]>>]

\* updateAggregates: the time series, then the daily aggregate of today
updateAggregates(doc, today) ==
    [updateTimeSeriesData(doc, today) EXCEPT !.daily =
        <<[date |-> today,
           views |-> TodayCount(doc.views, today),
           likes |-> TodayCount(doc.likes, today),
           shares |-> TodayCount(doc.shares, today),
           comments |-> TodayCount(doc.comments, today),
           sentiment |-> doc.overall]>>]

\* allScores.reduce((a, b) => a + b)
RECURSIVE SumScores(_)
SumScores(history) ==
    IF history = <<>> THEN 0 ELSE Head(history).score + SumScores(Tail(history))

\* the push of updateSentiment with the overall score taken over the scores that were
\* there before
PushedStaleMean(doc, log, entry) ==
    LET grown == [doc EXCEPT ![log] = Append(@, entry)]
    IN  IF log = "sentimentHistory"
        THEN [grown EXCEPT !.overall =
                 <<[sum |-> SumScores(doc.sentimentHistory),
                    count |-> Len(doc.sentimentHistory)]>>]
        ELSE grown

\* the document after addView, addEngagement(type, ...) or updateSentiment pushed
\* the entry, before updateAggregates
Pushed(doc, log, entry) ==
    LET grown == [doc EXCEPT ![log] = Append(@, entry)]
    IN  IF log = "sentimentHistory"
        THEN [grown EXCEPT !.overall =
                 <<[sum |-> SumScores(grown.sentimentHistory),
                    count |-> Len(grown.sentimentHistory)]>>]
        ELSE grown

\* save() of the document a method changed, loaded as base, onto the stored one
Save(stored, base, doc) ==
    LET added(log) == SubSeq(doc[log], Len(base[log]) + 1, Len(doc[log]))
    IN  [stored EXCEPT
            !.views = @ \o added("views"),
            !.likes = @ \o added("likes"),
            !.shares = @ \o added("shares"),
            !.comments = @ \o added("comments"),
            !.sentimentHistory = @ \o added("sentimentHistory"),
            !.timeSeriesData =
                IF Len(doc.timeSeriesData) > Len(base.timeSeriesData)
                THEN @ \o added("timeSeriesData")
                ELSE [i \in 1..Len(@) |->
                         IF doc.timeSeriesData[i] # base.timeSeriesData[i]
                         THEN doc.timeSeriesData[i] ELSE @[i]],
            !.overall = IF doc.overall # base.overall THEN doc.overall ELSE @,
            !.daily = doc.daily,
            !.v = @ + 1]

\* addView, addEngagement, updateSentiment on the loaded document base: push,
\* updateAggregates, save.  What is stored afterwards, and how the call ended
Appended(stored, base, log, entry, today) ==
    LET pushed == Pushed(base, log, entry)
        doc    == updateAggregates(pushed, today)
    IN  IF RecomputeThrows(pushed)
        THEN [stored |-> stored, code |-> InternalError, doc |-> pushed]
        ELSE IF Len(doc.timeSeriesData) = Len(base.timeSeriesData)
                /\ stored.v # base.v
        THEN [stored |-> stored, code |-> InternalError, doc |-> doc]
        ELSE [stored |-> Save(stored, base, doc), code |-> OK, doc |-> doc]

\* the entries a caller hands to the methods: views of today and of another day,
\* engagement with and without a timestamp, sentiment scores
EventInputs ==
    {[log |-> "views", entry |-> [timestamp |-> t, source |-> "api"]] : t \in {1, 2}}
    \cup {[log |-> l, entry |-> [timestamp |-> t]] :
             l \in {"likes", "shares", "comments"}, t \in {1, NoDate}}
    \cup {[log |-> "sentimentHistory", entry |-> [timestamp |-> 1, score |-> x]] :
             x \in {2, 5}}

\* a request loads the record of artifact d1
LoadRecord ==
    \E u \in Senders :
        /\ Authenticated(u)
        /\ pending[u] = <<>>
        /\ pending' = [pending EXCEPT ![u] = <<analytics[1]>>]
        /\ UNCHANGED <<users, contents, analytics, now, edits, sent, header, calls, file>>

\* the request calls addView, addEngagement or updateSentiment on what it loaded
AppendEvent ==
    \E u \in Senders, event \in EventInputs :
        /\ Authenticated(u)
        /\ pending[u] # <<>>
        /\ Len(analytics[1].views) + Len(analytics[1].likes) + Len(analytics[1].shares)
             + Len(analytics[1].comments) + Len(analytics[1].sentimentHistory)
               < MaxEvents
        /\ LET done == Appended(analytics[1], pending[u][1], event.log, event.entry, now)
           IN  /\ analytics' = [analytics EXCEPT ![1] = done.stored]
               /\ sent' = <<[code |-> done.code, doc |-> done.doc,
                             base |-> pending[u][1], event |-> event]>>
        /\ pending' = [pending EXCEPT ![u] = <<>>]
        /\ UNCHANGED <<users, contents, now, edits, header, calls, file>>

\* the stores as the server starts: the record of d1 without any event
InitAnalytics ==
    /\ users = StoredUsers
    /\ InitStores
    /\ file = [fills |-> <<>>, style |-> <<>>, padding |-> <<>>, effects |-> <<>>,
               children |-> <<>>]

NextAnalytics ==
    \/ LoadRecord
    \/ AppendEvent

SpecAnalytics == InitAnalytics /\ [][NextAnalytics]_vars

---------------------------------------------------------------------------
(* contentController.js and models/Content.js: edit requests in flight.  A request
   loads the artifact with findById and saves later; save() writes what the request
   changed on the copy it loaded: pushed revisions are appended to the stored log,
   assigned paths are set *)

\* the requests one account may have in flight
MaxInFlight == 2

\* req of POST /improve (with what the completion gives), PUT /:id and
\* POST /:id/versions/:version/restore
EditInputs ==
    {[handler |-> "improveContent", content |-> c, status |-> Undefined, version |-> 0] :
        c \in Bodies \cup {"error"}}
    \cup {[handler |-> "updateContent", content |-> b, status |-> Undefined, version |-> 0] :
             b \in BodyInputs}
    \cup {[handler |-> "restoreContentVersion", content |-> Undefined, status |-> Undefined,
           version |-> n] : n \in VersionInputs}

\* content.save() of doc, loaded as base, onto the stored document
SaveContent(stored, base, doc) ==
    [stored EXCEPT
        !.revisions = @ \o SubSeq(doc.revisions, Len(base.revisions) + 1,
                                  Len(doc.revisions)),
        !.content = IF doc.content # base.content THEN doc.content ELSE @,
        !.version = IF doc.version # base.version THEN doc.version ELSE @,
        !.status = IF doc.status # base.status THEN doc.status ELSE @]

\* addRevision and its save(); a document that fails validation is not written
Revised(stored, base, u, newContent, changeLog) ==
    LET doc == addRevision(base, u, newContent, changeLog)
    IN  IF ValidContent(doc)
        THEN [stored |-> SaveContent(stored, base, doc), doc |-> doc, code |-> OK]
        ELSE [stored |-> stored, doc |-> doc, code |-> ValidationError]

\* addRevision of the current body, then the assignment of the new body and the
\* second save() of updateContent and restoreContentVersion
RevisedThenSet(stored, base, u, newContent, changeLog) ==
    LET first == Revised(stored, base, u, base.content, changeLog)
        doc   == [first.doc EXCEPT !.content = newContent]
    IN  IF first.code # OK THEN first
        ELSE IF ValidContent(doc)
        THEN [stored |-> SaveContent(first.stored, first.doc, doc), doc |-> doc,
              code |-> OK]
        ELSE [stored |-> first.stored, doc |-> doc, code |-> ValidationError]

\* what a request that loaded base leaves stored when it runs to its end
Finished(stored, u, request) ==
    LET base == request.base
    IN  IF request.handler = "improveContent"
        THEN IF request.content = "error"
             THEN [stored |-> stored, doc |-> base, code |-> InternalError]
             ELSE Revised(stored, base, u, request.content, "Improved based on feedback")
        ELSE IF request.handler = "updateContent"
        THEN RevisedThenSet(stored, base, u, request.content, "Manual update")
        ELSE RevisedThenSet(stored, base, u,
                            FindRevision(base, request.version)[1].content,
                            "Restored to version")

\* the requests in flight
InFlight == {<<u, i>> \in UserIds \X (1..MaxInFlight) : i <= Len(pending[u])}

\* findById and the checks that follow it: the request holds its copy of artifact d1
LoadArtifact ==
    \E u \in Senders, req \in EditInputs :
        /\ Authenticated(u)
        /\ Found("d1")
        /\ Len(pending[u]) < MaxInFlight
        /\ Len(contents["d1"].revisions) + Cardinality(InFlight) < MaxVersion
        /\ req.handler \in {"improveContent", "updateContent"}
              => contents["d1"].author = u
        /\ req.handler = "restoreContentVersion"
              => FindRevision(contents["d1"], req.version) # <<>>
        /\ pending' = [pending EXCEPT ![u] =
                          Append(@, [handler |-> req.handler, content |-> req.content,
                                     status |-> req.status, version |-> req.version,
                                     base |-> contents["d1"]])]
        /\ UNCHANGED <<users, contents, analytics, now, edits, sent, header, calls, file>>

\* a request in flight runs to its end
FinishEdit ==
    \E u \in Senders :
        \E i \in 1..Len(pending[u]) :
            LET done == Finished(contents["d1"], u, pending[u][i])
            IN  /\ Authenticated(u)
                /\ contents' = Saved("d1", done.stored)
                /\ edits' = IF done.code = OK THEN [edits EXCEPT !["d1"] = @ + 1]
                            ELSE edits
                /\ pending' = [pending EXCEPT ![u] =
                                  SubSeq(@, 1, i - 1) \o SubSeq(@, i + 1, Len(@))]
                /\ UNCHANGED <<users, analytics, now, sent, header, calls, file>>

InitEdits ==
    /\ users = StoredUsers
    /\ InitStores
    /\ file = [fills |-> <<>>, style |-> <<>>, padding |-> <<>>, effects |-> <<>>,
               children |-> <<>>]

NextEdits ==
    \/ LoadArtifact
    \/ FinishEdit

SpecEdits == InitEdits /\ [][NextEdits]_vars

---------------------------------------------------------------------------
(* Claims *)

Last(seq) == seq[Len(seq)]

\* the requests a content handler can be sent
EditOutcomes(u, id) ==
    {improveContent(u, id, c) : c \in CompletionInputs \ {"response_error"}}
        \cup {updateContent(u, id, b, st) : b \in BodyInputs, st \in StatusInputs}
        \cup {restoreContentVersion(u, id, n) : n \in VersionInputs}

ReadOutcomes(u, id) ==
    {getContent(u, id), getContentVersions(u, id), getFigmaElements(u, id)}
        \cup {getContentVersion(u, id, n) : n \in VersionInputs}

ChangeOutcomes(u, id) ==
    EditOutcomes(u, id)
        \cup {deleteContent(u, id)}
        \cup {publishContent(u, id, chs) : chs \in ChannelInputs}
        \cup {scheduleContent(u, id, at, "UTC", chs) :
                 at \in PublishAtInputs, chs \in ChannelInputs}
        \cup {syncWithFigma(u, id, "f1", nodeIds, f) :
                 nodeIds \in NodeIdInputs, f \in FigmaInputs}
        \cup {syncDesignElements(u, "f1", nodeIds, id, f) :
                 nodeIds \in NodeIdInputs, f \in FigmaInputs}

\* C1: a request by an account of another company against an artifact ends in
\* AuthorizationError or NotFoundError, carries nothing of the artifact and leaves
\* the artifact as it was
C1_CrossCompanyDenied ==
    \A u \in UserIds, id \in DOMAIN contents :
        users[u].company._id # contents[id].company =>
            \A o \in ReadOutcomes(u, id) \cup ChangeOutcomes(u, id) :
                /\ o.code \in {AuthorizationError, NotFoundError}
                /\ o.returns = {}
                /\ o.contents = contents

\* C2: an artifact's version is 1 + the number of its successful edits, and its
\* revision log has one entry per successful edit
C2_VersionCountsEdits ==
    \A id \in DOMAIN contents :
        /\ contents[id].version = 1 + edits[id]
        /\ Len(contents[id].revisions) = edits[id]

\* C3: after a successful improve, update or restore the newest revision holds the
\* body and the version number the artifact had before the call
C3_RevisionHoldsOldBody ==
    \A u \in UserIds, id \in DOMAIN contents :
        \A o \in EditOutcomes(u, id) :
            o.code = OK =>
                /\ o.contents[id].revisions # <<>>
                /\ Last(o.contents[id].revisions).content = contents[id].content
                /\ Last(o.contents[id].revisions).version = contents[id].version

\* an artifact edited once, by a call that changed its body
C3_Witness ==
    /\ "d1" \in DOMAIN contents
    /\ edits["d1"] = 1
    /\ Len(contents["d1"].revisions) = 1
    /\ contents["d1"].revisions[1].content # contents["d1"].content
    /\ contents["d1"].revisions[1].version = 1

StatusMoves ==
    {<<"draft", "published">>, <<"draft", "archived">>, <<"published", "archived">>}

\* C4: the lifecycle status of an artifact only moves draft -> published,
\* draft -> archived or published -> archived
C4_StatusMachine ==
    [][\A id \in DOMAIN contents :
          id \in DOMAIN contents' =>
              \/ contents'[id].status = contents[id].status
              \/ <<contents[id].status, contents'[id].status>> \in StatusMoves]_vars

\* the statuses the entries of a channel list give platform p
ChannelStatuses(doc, p) ==
    {doc.channels[i].status : i \in {j \in 1..Len(doc.channels) : doc.channels[j].platform = p}}

\* C5: a channel that has reached published never has status pending or failed later
C5_PublishedChannelStays ==
    [][\A id \in DOMAIN contents, p \in PlatformEnum :
          (id \in DOMAIN contents' /\ "published" \in ChannelStatuses(contents[id], p)) =>
              ChannelStatuses(contents'[id], p) \subseteq {"published"}]_vars

\* the artifact id is archived in the outcome and is otherwise as it was
ArchivedOnly(o, id) ==
    /\ id \in DOMAIN o.contents
    /\ o.contents[id].isArchived
    /\ o.contents[id] = [contents[id] EXCEPT !.isArchived = TRUE]

\* C6: archiving (deleteContent by the author, bulkArchiveContent by an admin of the
\* company) sets isArchived and leaves version, revisions and body; no artifact leaves
\* the store
C6_ArchiveKeepsHistory ==
    \A u \in UserIds, id \in DOMAIN contents :
        /\ contents[id].author = u =>
              /\ deleteContent(u, id).code = OK
              /\ ArchivedOnly(deleteContent(u, id), id)
        /\ DOMAIN deleteContent(u, id).contents = DOMAIN contents
        /\ \A ids \in IdListInputs :
              /\ DOMAIN bulkArchiveContent(u, ids).contents = DOMAIN contents
              /\ (/\ users[u].role = "admin"
                  /\ users[u].company._id = contents[id].company
                  /\ \E i \in 1..Len(ids) : ids[i] = id) =>
                     /\ bulkArchiveContent(u, ids).code = OK
                     /\ ArchivedOnly(bulkArchiveContent(u, ids), id)

\* an artifact archived after an edit
C6_Witness ==
    /\ "d1" \in DOMAIN contents
    /\ contents["d1"].isArchived
    /\ contents["d1"].version = 2
    /\ Len(contents["d1"].revisions) = 1

\* C7: a generate request with a recognized type, a prompt within the limit and a
\* successful completion stores a new draft artifact at version 1 with no revisions,
\* author and company of the account, and an analytics record with empty logs
C7_GenerateStoresDraft ==
    \A u \in UserIds, req \in GenerateInputs, completion \in Bodies :
        (/\ req.type \in TypeEnum
         /\ PromptLen(req.prompt) \in 1..MaxPromptLen
         /\ \E i \in ContentIds : i \notin DOMAIN contents) =>
            LET o == generateContent(u, req.type, req.prompt, completion)
            IN  /\ o.code = OK
                /\ \E id \in DOMAIN o.contents \ DOMAIN contents :
                      /\ o.contents[id].status = "draft"
                      /\ o.contents[id].version = 1
                      /\ o.contents[id].revisions = <<>>
                      /\ o.contents[id].author = u
                      /\ o.contents[id].company = users[u].company._id
                      /\ \E i \in 1..Len(o.analytics) :
                            o.analytics[i] = NewAnalytics(id, users[u].company._id)

\* C9: after a successful publishContent(channels) the status is published and the
\* channel list is one published entry with a publishedAt per requested channel
C9_PublishReplacesChannels ==
    \A u \in UserIds, id \in DOMAIN contents, chs \in ChannelInputs :
        LET o == publishContent(u, id, chs)
        IN  o.code = OK =>
               /\ contents[id].author = u
               /\ o.contents[id].status = "published"
               /\ Len(o.contents[id].channels) = Len(chs)
               /\ \A i \in 1..Len(chs) :
                     /\ o.contents[id].channels[i].platform = chs[i]
                     /\ o.contents[id].channels[i].status = "published"
                     /\ o.contents[id].channels[i].publishedAt # NoDate

\* a scheduled artifact published later: two published channels
C9_Witness ==
    /\ "d1" \in DOMAIN contents
    /\ contents["d1"].status = "published"
    /\ contents["d1"].schedule # <<>>
    /\ Len(contents["d1"].channels) = 2
    /\ \A i \in 1..2 : contents["d1"].channels[i].status = "published"

\* C10: a successful scheduleContent replaces the channel list by one pending entry
\* per requested channel, records the schedule and leaves status, body, version and
\* revisions
C10_ScheduleFrame ==
    \A u \in UserIds, id \in DOMAIN contents, at \in PublishAtInputs, chs \in ChannelInputs :
        LET o == scheduleContent(u, id, at, "UTC", chs)
        IN  o.code = OK =>
               /\ contents[id].author = u
               /\ Len(o.contents[id].channels) = Len(chs)
               /\ \A i \in 1..Len(chs) :
                     /\ o.contents[id].channels[i].platform = chs[i]
                     /\ o.contents[id].channels[i].status = "pending"
               /\ o.contents[id].schedule = <<[publishAt |-> at, timezone |-> "UTC"]>>
               /\ o.contents[id].status = contents[id].status
               /\ o.contents[id].content = contents[id].content
               /\ o.contents[id].version = contents[id].version
               /\ o.contents[id].revisions = contents[id].revisions

\* a published and edited artifact scheduled afterwards
C10_Witness ==
    /\ "d1" \in DOMAIN contents
    /\ contents["d1"].status = "published"
    /\ contents["d1"].version = 2
    /\ contents["d1"].schedule # <<>>
    /\ Len(contents["d1"].channels) = 2
    /\ \A i \in 1..2 : contents["d1"].channels[i].status = "pending"

\* C11: restoreContentVersion(N) without a revision numbered N ends in NotFoundError and
\* changes nothing; with one, the body becomes that revision's snapshot, the body of
\* before is the newest revision and the version is one more than before
C11_RestoreVersion ==
    \A u \in UserIds, id \in DOMAIN contents, n \in VersionInputs :
        LET doc  == contents[id]
            o    == restoreContentVersion(u, id, n)
            hits == {i \in 1..Len(doc.revisions) : doc.revisions[i].version = n}
        IN  IF hits = {}
            THEN /\ o.code = NotFoundError
                 /\ o.contents = contents
                 /\ o.analytics = analytics
            ELSE /\ o.code = OK
                 /\ \A i \in hits : o.contents[id].content = doc.revisions[i].content
                 /\ Len(o.contents[id].revisions) = Len(doc.revisions) + 1
                 /\ Last(o.contents[id].revisions).content = doc.content
                 /\ o.contents[id].version = doc.version + 1

\* an artifact edited to another body and then restored to version 1
C11_Witness ==
    /\ "d1" \in DOMAIN contents
    /\ contents["d1"].version = 3
    /\ Len(contents["d1"].revisions) = 2
    /\ contents["d1"].revisions[2].changeLog = "Restored to version"
    /\ contents["d1"].content = contents["d1"].revisions[1].content
    /\ contents["d1"].content # contents["d1"].revisions[2].content

\* the artifacts of the account's company that a list of ids names
Named(u, ids) ==
    {id \in DOMAIN contents :
        /\ \E i \in 1..Len(ids) : ids[i] = id
        /\ contents[id].company = users[u].company._id}

\* C12: a bulk publish or bulk archive request of an admin changes only artifacts of
\* the admin's company that the list names, and succeeds when some of the ids match
C12_BulkScoped ==
    \A u \in UserIds, ids \in IdListInputs :
        users[u].role = "admin" =>
            LET a == RouteBulkArchive(u, ids)
                p == RouteBulkPublish(u, ids, <<"website", "email">>)
            IN  /\ \A id \in DOMAIN contents \ Named(u, ids) :
                      /\ a.contents[id] = contents[id]
                      /\ p.contents[id] = contents[id]
                /\ Named(u, ids) # {} =>
                      /\ a.code = OK
                      /\ a.returns = {"count"}
                      /\ \A id \in Named(u, ids) : a.contents[id].isArchived
                      /\ p.code = OK
                      /\ p.returns = {"count"}
                      /\ \A id \in Named(u, ids) : p.contents[id].status = "published"

\* the analytics records of the account's company
OwnRecords(u) ==
    SelectSeq(analytics, LAMBDA rec : rec.company = users[u].company._id)

OpenRoutes ==
    {"POST /register", "POST /login", "POST /forgot-password", "POST /reset-password"}

\* C14: on every route other than registration, login and password reset, a request
\* without a valid bearer credential ends in an authentication error before the handler
C14_CredentialRequired ==
    \A r \in Routes, credential \in CredentialInputs \ {"valid"}, u \in DOMAIN users :
        ~(r.router = "auth" /\ r.route \in OpenRoutes) =>
            Dispatch(r, credential, users[u].role) = AuthenticationError

\* what the four role-gated requests of an account give
GatedOutcomes(u) ==
    {getUserActivity(u)}
        \cup {generateCustomReport(u, dimensions) : dimensions \in DimensionInputs}
        \cup {RouteBulkArchive(u, ids) : ids \in IdListInputs}
        \cup {RouteBulkPublish(u, ids, chs) : ids \in IdListInputs, chs \in ChannelInputs}

\* C15: a role-gated request (user activity, custom report, bulk publish, bulk archive)
\* of an account that is no admin ends in an authorization error and changes no store
C15_AdminOnly ==
    \A u \in UserIds :
        users[u].role # "admin" =>
            \A o \in GatedOutcomes(u) :
                /\ o.code = AuthorizationError
                /\ o.returns = {}
                /\ o.contents = contents
                /\ o.analytics = analytics

\* C16: the serialized account of a response has no password hash, no API key and no
\* integration tokens, whatever the account holds, and serializing it again gives
\* the same
C16_SerializedAccountClean ==
    /\ \A u \in UserIds :
          /\ DOMAIN toJSON(users[u]) \cap Sensitive = {}
          /\ toJSON(toJSON(users[u])) = toJSON(users[u])
          /\ \A f \in DOMAIN toJSON(users[u]) : toJSON(users[u])[f] = users[u][f]
    /\ \A i \in 1..Len(sent) :
          /\ DOMAIN sent[i] \cap Sensitive = {}
          /\ toJSON(sent[i]) = sent[i]
          /\ \E u \in UserIds : sent[i].email = users[u].email

\* the profile of an account with an API key and a connected integration was sent
C16_Witness ==
    /\ sent # <<>>
    /\ \E u \in AccountIds :
          /\ sent[1].email = users[u].email
          /\ sent[1].name = "n2"
          /\ users[u].apiKey # Undefined
          /\ users[u].figmaIntegration.accessToken = "tok2"
          /\ users[u].password # Undefined

\* C17: a failed completion call (an error response, a timeout, a refused connection)
\* ends generation with an upstream-service error that the caller receives as 503,
\* a status neither a rejected request nor an internal error is answered with
C17_UpstreamFailureIs503 ==
    \A u \in UserIds, req \in GenerateInputs, completion \in FailureInputs :
        generateContent(u, req.type, req.prompt, completion).code
            \notin {OK, ValidationError}
        => /\ generateContent(u, req.type, req.prompt, completion).code
                 = UpstreamServiceError
           /\ errorHandler(CompletionFailure(completion)) = 503
           /\ errorHandler(CompletionFailure(completion)) # errorHandler(APIError(400))
           /\ errorHandler(CompletionFailure(completion)) # errorHandler(APIError(500))

\* C18: when the template of the type names a placeholder that params has no value
\* for, generation fails with a validation error and the completion API is not
\* called; no prompt sent to the completion API holds a placeholder
C18_UnresolvedPlaceholderRejected ==
    \A u \in DOMAIN users, req \in GenerateInputs, params \in ParamInputs,
       completion \in CompletionInputs :
        (req.type \in TypeEnum /\ PromptLen(req.prompt) \in 1..MaxPromptLen) =>
            LET given  == ServiceParams(u, req.prompt, params)
                result == aiGenerateContent(req.type, given, completion)
            IN  /\ Unresolved(req.type, given) # {}
                      => result.code = ValidationError /\ ~result.called
                /\ result.called
                      => \A i \in 1..Len(result.prompt) :
                            result.prompt[i] \notin Placeholders

\* the aggregation reads of an account with the default range, and whether a record
\* matches the filter of each
AggregationReads(u) ==
    LET company == users[u].company._id
        entries == Unwind(analytics, company, now - 30, now)
        stored  == SelectSeq(analytics, LAMBDA record : record.company = company)
    IN  {[matches |-> entries # <<>>, outcome |-> getDashboardAnalytics(u)],
         [matches |-> entries # <<>>, outcome |-> getEngagementMetrics(u)],
         [matches |-> entries # <<>>, outcome |-> getSentimentAnalysis(u)]}
        \cup {[matches |-> Unwind(analytics, company, period[1], period[2]) # <<>>,
                outcome |-> getTimeSeriesData(u, period[1], period[2])] :
                    period \in PeriodInputs}
        \cup {[matches |-> Unwind(analytics, company, period[1], period[2]) # <<>>,
                outcome |-> compareAnalytics(u, period, period, metric)] :
                    period \in PeriodInputs, metric \in MetricInputs}
        \cup {[matches |-> stored # <<>>, outcome |-> exportAnalytics(u, format)] :
                    format \in FormatInputs}
        \cup {[matches |-> getByDateRange(analytics, id, now - 30, now) # <<>>,
                outcome |-> [getContentAnalytics(u, id) EXCEPT !.returns = {}]] :
                    id \in ContentIds}

\* C19: an aggregation read that no record matches answers normally, and every number
\* of its answer is a number (zero), never NaN
C19_EmptyReadsAnswerZeroes ==
    \A u \in UserIds : \A read \in AggregationReads(u) :
        ~read.matches =>
            /\ read.outcome.code = OK
            /\ \A field \in DOMAIN read.outcome.body :
                  /\ ~read.outcome.body[field].nan
                  /\ read.outcome.body[field].value = 0

\* C20: compareAnalytics reports, for the total of the metric, a change of 0 when both
\* periods are 0, of 100 when only period 1 is 0, and of (period2 - period1) /
\* period1 * 100 otherwise; a period without records counts 0
C20_PercentageChangeReported ==
    \A u \in UserIds, period1 \in PeriodInputs, period2 \in PeriodInputs,
       metric \in MetricInputs :
        LET reported == compareAnalytics(u, period1, period2, metric)
            data1 == PeriodData(u, period1, metric)
            data2 == PeriodData(u, period2, metric)
            value1 == IF data1 = <<>> THEN 0 ELSE data1[1].total
            value2 == IF data2 = <<>> THEN 0 ELSE data2[1].total
        IN  /\ reported.code = OK
            /\ reported.body.totalChange =
                  Number(IF value1 = 0 /\ value2 = 0 THEN 0
                         ELSE IF value1 = 0 THEN 100
                         ELSE ((value2 - value1) * 100) \div value1)

\* the entries of an array are pairwise different
Distinct(array) ==
    \A i \in 1..Len(array), j \in 1..Len(array) : array[i] = array[j] => i = j

\* C21: the design tokens of a file hold, in each category, no two structurally equal
\* values; the colors are 6-digit hex colors, one for every solid fill of the file
C21_TokensDistinct ==
    LET tokens == extractDesignTokens(file)
    IN  /\ Distinct(tokens.colors)
        /\ \A i \in 1..Len(tokens.colors) :
              Len(tokens.colors[i]) = 7 /\ tokens.colors[i][1] = "#"
        /\ Distinct(tokens.typography)
        /\ Distinct(tokens.spacing)
        /\ Distinct(tokens.effects)
        /\ \A i \in 1..Len(sent) : Distinct(sent[i].effects)

\* C22: every outbound call carries the token that its own request set
C22_CallCarriesOwnToken ==
    \A i \in 1..Len(calls) : calls[i].token = calls[i].own

\* the daily aggregate and the one time-series entry of today hold the counts of
\* today's raw events
RollupCurrent(record, today) ==
    LET Count(log) == Cardinality({i \in 1..Len(log) : log[i].timestamp = today})
        entries == {i \in 1..Len(record.timeSeriesData) :
                       record.timeSeriesData[i].date = today}
    IN  /\ record.daily # <<>>
        /\ record.daily[1].date = today
        /\ record.daily[1].views = Count(record.views)
        /\ record.daily[1].likes = Count(record.likes)
        /\ record.daily[1].shares = Count(record.shares)
        /\ record.daily[1].comments = Count(record.comments)
        /\ Cardinality(entries) = 1
        /\ \A i \in entries :
              /\ record.timeSeriesData[i].metrics.views = Count(record.views)
              /\ record.timeSeriesData[i].metrics.likes = Count(record.likes)
              /\ record.timeSeriesData[i].metrics.shares = Count(record.shares)
              /\ record.timeSeriesData[i].metrics.comments = Count(record.comments)

C25_AppendSurvivesRecompute ==
    \A i \in 1..Len(sent) :
        RecomputeThrows(sent[i].doc) =>
            \E j \in 1..Len(analytics[1][sent[i].event.log]) :
                analytics[1][sent[i].event.log][j] = sent[i].event.entry

\* C26: an append by a request that loaded the record as it is stored, with no other
\* save in between, leaves the stored rollup equal to the raw counts of the day; the
\* lost update needs two requests that both load before either saves
C26_SequentialRollupExact ==
    [][(/\ analytics' # analytics
        /\ sent' # <<>>
        /\ sent'[1].code = OK
        /\ sent'[1].base = analytics[1]
        /\ analytics[1].daily # <<>> => RollupCurrent(analytics[1], now))
       => RollupCurrent(analytics'[1], now')]_vars

\* both requests are done, both views of the day are stored, and the daily aggregate
\* counts one
C26_Witness ==
    /\ \A u \in UserIds : pending[u] = <<>>
    /\ Cardinality({j \in 1..Len(analytics[1].views) :
                       analytics[1].views[j].timestamp = now}) = 2
    /\ analytics[1].daily # <<>>
    /\ analytics[1].daily[1].views = 1
    /\ sent # <<>>
    /\ sent[1].code = OK

\* C27: a successful updateSentiment leaves the history one entry longer, the new score
\* last, and the overall score the sum of the scores of the history over their number
C27_OverallIsMean ==
    \A i \in 1..Len(sent) :
        (sent[i].code = OK /\ sent[i].event.log = "sentimentHistory") =>
            LET doc  == sent[i].doc
                base == sent[i].base
            IN  /\ doc.sentimentHistory
                     = Append(base.sentimentHistory, sent[i].event.entry)
                /\ doc.overall # <<>>
                /\ doc.overall[1].count = Len(doc.sentimentHistory)
                /\ doc.overall[1].sum = SumScores(doc.sentimentHistory)
                /\ analytics[1].overall = doc.overall

\* a second score was added to a history of one
C27_Witness ==
    /\ sent # <<>>
    /\ sent[1].code = OK
    /\ sent[1].event.log = "sentimentHistory"
    /\ Len(sent[1].doc.sentimentHistory) = 2
    /\ sent[1].doc.sentimentHistory[1].score # sent[1].doc.sentimentHistory[2].score
    /\ sent[1].doc.overall[1].sum = 7

\* body, version and revision log of an artifact
Artifact(doc) == <<doc.content, doc.version, doc.revisions>>

\* C28: an edit request (updateContent, improveContent, restoreContentVersion) that ends
\* in an error leaves the stored artifact's body, version and revision log as they were
C28_FailedEditLeavesArtifact ==
    \A u \in Senders \cap DOMAIN users, id \in DOMAIN contents :
        \A outcome \in {updateContent(u, id, req.content, req.status) : req \in UpdateInputs}
                       \cup {improveContent(u, id, c) : c \in CompletionInputs}
                       \cup {restoreContentVersion(u, id, n) : n \in VersionInputs} :
            outcome.code # OK =>
                Artifact(outcome.contents[id]) = Artifact(contents[id])

\* C29: after any interleaving of edit requests on one artifact the version numbers of
\* the revision log are strictly increasing in log order, the artifact's version is
\* greater than each of them, and the version never decreases from one stored state
\* to the next
C29_VersionsIncrease ==
    [][\A id \in DOMAIN contents' :
          LET doc == contents'[id]
          IN  /\ \A i, j \in 1..Len(doc.revisions) :
                    i < j => doc.revisions[i].version < doc.revisions[j].version
              /\ \A i \in 1..Len(doc.revisions) : doc.revisions[i].version < doc.version
              /\ id \in DOMAIN contents => contents[id].version <= doc.version]_vars

\* C30: after connectFigma ended without an error hasFigmaToken() holds for the account,
\* so that getFile and syncWithFigma do not reject it as not configured; after
\* disconnectFigma hasFigmaToken() is false
C30_ConnectedAccountHasToken ==
    \A u \in AccountIds \cap DOMAIN users :
        /\ \A accessToken \in TokenInputs, figma \in FigmaInputs :
              LET outcome == connectFigma(u, accessToken, figma)
              IN  outcome.code = OK => hasFigmaToken(outcome.users[u])
        /\ ~hasFigmaToken(disconnectFigma(u).users[u])

====
